---- MODULE Spec2Model ----
(***************************************************************************)
(* Model of App.py (TeacherPrep API): the /tailor request handler, the PDF *)
(* text extractor and the skill keyword expander.                          *)
(*                                                                         *)
(* Three specifications share the module:                                  *)
(*   Spec        - concurrent /tailor requests over one upload folder      *)
(*   SpecExtract - extract_text_from_pdf, page by page, and its caller's   *)
(*                 empty-text check                                        *)
(*   SpecExpand  - expand_keywords, category by category, keyword by       *)
(*                 keyword, with random.sample as a nondeterministic choice*)
(* Python strings are TLA+ strings; substring tests, lower() and strip()   *)
(* are computed character by character.                                    *)
(***************************************************************************)
EXTENDS Integers, Sequences, FiniteSets, TLC

VARIABLES
    \* ---- Spec: /tailor requests ----
    pc,          \* pc[r]: position of request r in tailor_resume
    req,         \* req[r]: the request's inputs (files, form)
    filepath,    \* filepath[r]: local `filepath`
    resume_text, \* resume_text[r]: local `resume_text`
    tailored,    \* tailored[r]: what generate_tailored_resume gave (text or error)
    response,    \* response[r]: what the request returned
    folder,      \* the upload folder: path -> file or NoFile
    calls,       \* calls[r]: how often each helper / file operation ran
    touched,     \* touched[r]: whose file request r read and removed
    \* ---- SpecExtract: extract_text_from_pdf ----
    xDoc,        \* the PDF at pdf_path
    xIdx,        \* index of the next page of pdf.pages
    xText,       \* local `text`
    xPc,         \* "open", "pages", "returned", "raised", "empty", "proceed"
    xResult,     \* the returned string
    \* ---- SpecExpand: expand_keywords ----
    eText,       \* parameter `text`
    expanded,    \* local `expanded`
    eCat,        \* index of the next item of skill_map.items()
    selected,    \* the part of `selected` still to be iterated
    eAppended,   \* history: <<category index, keyword>> of every append
    ePc          \* "loop", "kw", "returned"

reqVars == <<pc, req, filepath, resume_text, tailored, response, folder, calls, touched>>
xVars == <<xDoc, xIdx, xText, xPc, xResult>>
eVars == <<eText, expanded, eCat, selected, eAppended, ePc>>
vars == <<reqVars, xVars, eVars>>

-----------------------------------------------------------------------------
(* Python str operations *)

\* `sub in s`
Contains(sub, s) ==
    \E i \in 1..(Len(s) - Len(sub) + 1) : SubSeq(s, i, i + Len(sub) - 1) = sub

\* number of positions at which sub occurs in s
Occurrences(sub, s) ==
    Cardinality({i \in 1..(Len(s) - Len(sub) + 1) : SubSeq(s, i, i + Len(sub) - 1) = sub})

UpperChars == "ABCDEFGHIJKLMNOPQRSTUVWXYZ"
LowerChars == "abcdefghijklmnopqrstuvwxyz"

\* the upper-case letters' lower-case counterparts
LowerMap ==
    [c \in {SubSeq(UpperChars, i, i) : i \in 1..Len(UpperChars)} |->
        LET i == CHOOSE i \in 1..Len(UpperChars) : SubSeq(UpperChars, i, i) = c
        IN SubSeq(LowerChars, i, i)]

LowerChar(c) == IF c \in DOMAIN LowerMap THEN LowerMap[c] ELSE c

RECURSIVE Lower(_)
\* s.lower()
Lower(s) ==
    IF s = "" THEN ""
    ELSE LowerChar(SubSeq(s, 1, 1)) \o Lower(SubSeq(s, 2, Len(s)))

Whitespace == {" ", "\t", "\n", "\r"}

RECURSIVE LStrip(_)
LStrip(s) ==
    IF s # "" /\ SubSeq(s, 1, 1) \in Whitespace
    THEN LStrip(SubSeq(s, 2, Len(s)))
    ELSE s

RECURSIVE RStrip(_)
RStrip(s) ==
    IF s # "" /\ SubSeq(s, Len(s), Len(s)) \in Whitespace
    THEN RStrip(SubSeq(s, 1, Len(s) - 1))
    ELSE s

\* s.strip()
Strip(s) == RStrip(LStrip(s))

\* position of the last occurrence of character c in s, 0 when absent
LastIndex(c, s) ==
    IF Contains(c, s)
    THEN CHOOSE i \in 1..Len(s) :
            /\ SubSeq(s, i, i) = c
            /\ \A j \in (i + 1)..Len(s) : SubSeq(s, j, j) # c
    ELSE 0

-----------------------------------------------------------------------------
(* Configuration *)

UPLOAD_FOLDER == "uploads"

ALLOWED_EXTENSIONS == {"pdf"}

SKILL_MAP == <<
    [generic |-> "classroom management",
     keywords |-> <<"behavior management", "positive reinforcement", "PBIS",
                    "restorative practices", "differentiated discipline",
                    "student engagement strategies">>],
    [generic |-> "curriculum design",
     keywords |-> <<"lesson planning", "backward design", "standards alignment",
                    "UDL", "scaffolding", "interdisciplinary units">>],
    [generic |-> "assessment",
     keywords |-> <<"formative assessment", "summative assessment",
                    "data-driven instruction", "rubric design",
                    "progress monitoring", "IEP goals">>],
    [generic |-> "technology integration",
     keywords |-> <<"Google Classroom", "SmartBoard", "EdTech", "blended learning",
                    "LMS", "Kahoot", "Seesaw", "Flipgrid", "Nearpod">>],
    [generic |-> "differentiated instruction",
     keywords |-> <<"tiered assignments", "learning styles", "multiple intelligences",
                    "small group instruction", "flexible grouping", "accommodations">>],
    [generic |-> "parent communication",
     keywords |-> <<"parent-teacher conferences", "newsletters", "Remind app",
                    "ClassDojo", "email updates", "family engagement">>],
    [generic |-> "special education",
     keywords |-> <<"IEP", "504 plans", "co-teaching", "inclusion",
                    "behavior intervention plans", "accommodations vs modifications">>],
    [generic |-> "social-emotional learning",
     keywords |-> <<"SEL", "growth mindset", "trauma-informed practices",
                    "mindfulness", "character education">>]
>>

-----------------------------------------------------------------------------
(* extract_text_from_pdf *)

\* A PDF is either unparsable or a sequence of pages; page.extract_text()
\* gives None or a string.
NoneText == [some |-> FALSE, str |-> ""]
Text(s) == [some |-> TRUE, str |-> s]
Unparsable == [parsable |-> FALSE, pages |-> <<>>]
Pdf(pages) == [parsable |-> TRUE, pages |-> pages]

\* `if page_text:`
Truthy(page_text) == page_text.some /\ page_text.str # ""

PageStepNoNewline(text, page_text) ==
    IF Truthy(page_text) THEN text \o page_text.str ELSE text

\* one iteration of `for page in pdf.pages`
PageStep(text, page_text) ==
    IF Truthy(page_text) THEN text \o page_text.str \o "\n" ELSE text

RECURSIVE PagesLoop(_, _)
PagesLoop(text, pages) ==
    IF pages = <<>> THEN text
    ELSE PagesLoop(PageStep(text, Head(pages)), Tail(pages))

\* the value extract_text_from_pdf returns for a PDF that opens
ExtractText(pages) == Strip(PagesLoop("", pages))


MaxPages == 3

\* what page.extract_text() may give for one page
PageTexts ==
    {NoneText, Text(""), Text(" "), Text("\n"), Text("Math teacher"), Text(" B.Ed \n")}

RECURSIVE SeqsUpTo(_, _)
SeqsUpTo(S, n) ==
    IF n = 0 THEN {<<>>}
    ELSE LET shorter == SeqsUpTo(S, n - 1)
         IN shorter \cup {Append(q, e) : q \in shorter, e \in S}

Docs == {Unparsable} \cup {Pdf(p) : p \in SeqsUpTo(PageTexts, MaxPages)}

IdleReq ==
    /\ pc = <<>> /\ req = <<>> /\ filepath = <<>> /\ resume_text = <<>>
    /\ tailored = <<>>
    /\ response = <<>> /\ folder = <<>> /\ calls = <<>> /\ touched = <<>>

IdleX ==
    /\ xDoc = Unparsable /\ xIdx = 1 /\ xText = "" /\ xPc = "idle" /\ xResult = ""

IdleE ==
    /\ eText = "" /\ expanded = "" /\ eCat = 1 /\ selected = <<>>
    /\ eAppended = <<>> /\ ePc = "idle"

InitExtract ==
    /\ xDoc \in Docs
    /\ xIdx = 1
    /\ xText = ""
    /\ xPc = "open"
    /\ xResult = ""
    /\ IdleReq /\ IdleE

\* `with pdfplumber.open(pdf_path) as pdf:` on a file that is a PDF
XOpen ==
    /\ xPc = "open"
    /\ xDoc.parsable
    /\ xPc' = "pages"
    /\ UNCHANGED <<xDoc, xIdx, xText, xResult>>

\* pdfplumber.open raises on a file it cannot parse; nothing is returned
XOpenRaises ==
    /\ xPc = "open"
    /\ ~xDoc.parsable
    /\ xPc' = "raised"
    /\ UNCHANGED <<xDoc, xIdx, xText, xResult>>

\* one iteration of the page loop
XPage ==
    /\ xPc = "pages"
    /\ xIdx <= Len(xDoc.pages)
    /\ xText' = PageStep(xText, xDoc.pages[xIdx])
    /\ xIdx' = xIdx + 1
    /\ UNCHANGED <<xDoc, xPc, xResult>>

\* `return text.strip()`
XReturn ==
    /\ xPc = "pages"
    /\ xIdx > Len(xDoc.pages)
    /\ xResult' = Strip(xText)
    /\ xPc' = "returned"
    /\ UNCHANGED <<xDoc, xIdx, xText>>

\* the caller's `if not resume_text.strip():`
IsEmptyContent(text) == Strip(text) = ""

\* tailor_resume after the extractor returned: empty-content failure or go on
XCallerCheck ==
    /\ xPc = "returned"
    /\ xPc' = IF IsEmptyContent(xResult) THEN "empty" ELSE "proceed"
    /\ UNCHANGED <<xDoc, xIdx, xText, xResult>>

NextExtract ==
    /\ \/ XOpen
       \/ XOpenRaises
       \/ XPage
       \/ XReturn
       \/ XCallerCheck
    /\ UNCHANGED <<reqVars, eVars>>

SpecExtract == InitExtract /\ [][NextExtract]_vars

-----------------------------------------------------------------------------
(* expand_keywords *)

SampleSize == 2

Min(a, b) == IF a < b THEN a ELSE b

\* sequences of k positions of 1..n; with repetition
IndexSeqs(n, k) == [1..k -> 1..n]

SamplesWithReplacement(keywords) ==
    LET k == Min(SampleSize, Len(keywords))
    IN {[i \in 1..k |-> keywords[ix[i]]] : ix \in IndexSeqs(Len(keywords), k)}

\* random.sample(keywords, min(2, len(keywords))): every ordered choice of
\* that many distinct positions
Samples(keywords) ==
    LET k == Min(SampleSize, Len(keywords))
    IN {[i \in 1..k |-> keywords[ix[i]]] :
          ix \in {f \in IndexSeqs(Len(keywords), k) :
                    \A i, j \in 1..k : i # j => f[i] # f[j]}}

MatchesSwapped(generic, text) == Contains(Lower(text), Lower(generic))

\* `generic.lower() in text.lower()`
Matches(generic, text) == Contains(Lower(generic), Lower(text))

AppendKeywordInFront(exp, kw) == kw \o " | " \o exp

\* `expanded += f" | {kw}"`
AppendKeyword(exp, kw) == exp \o " | " \o kw

\* body of `for kw in selected`
KeywordStep(exp, kw) ==
    IF ~Contains(kw, exp) THEN AppendKeyword(exp, kw) ELSE exp

RECURSIVE KeywordLoop(_, _)
KeywordLoop(exp, sel) ==
    IF sel = <<>> THEN exp
    ELSE KeywordLoop(KeywordStep(exp, Head(sel)), Tail(sel))

RECURSIVE ExpandFrom(_, _, _)
\* the set of values the loop over skill_map.items() can end with, from
\* category cat on, over every outcome of random.sample
ExpandFrom(text, exps, cat) ==
    IF cat > Len(SKILL_MAP) THEN exps
    ELSE IF Matches(SKILL_MAP[cat].generic, text)
         THEN ExpandFrom(text,
                         {KeywordLoop(e, s) : e \in exps,
                                              s \in Samples(SKILL_MAP[cat].keywords)},
                         cat + 1)
         ELSE ExpandFrom(text, exps, cat + 1)

\* every value expand_keywords(text, SKILL_MAP) can return
ExpandKeywords(text) == ExpandFrom(text, {text}, 1)

\* the texts expand_keywords is run on
ExpandInputs ==
    {"",
     "Math teacher",
     "Strong classroom management skills",
     "classroom management with PBIS and positive reinforcement",
     "ASSESSMENT and Special Education",
     "differentiated instruction, special education",
     "Special Education: IEP",
     "Social-Emotional Learning; assessment, differentiated instruction"}

InitExpand ==
    /\ eText \in ExpandInputs
    /\ expanded = eText
    /\ eCat = 1
    /\ selected = <<>>
    /\ eAppended = <<>>
    /\ ePc = "loop"
    /\ IdleReq /\ IdleX

\* the category's label occurs: sample its keywords
ESample ==
    /\ ePc = "loop"
    /\ eCat <= Len(SKILL_MAP)
    /\ Matches(SKILL_MAP[eCat].generic, eText)
    /\ \E s \in Samples(SKILL_MAP[eCat].keywords) :
          /\ selected' = s
          /\ IF s = <<>>
             THEN ePc' = "loop" /\ eCat' = eCat + 1
             ELSE ePc' = "kw" /\ eCat' = eCat
    /\ UNCHANGED <<eText, expanded, eAppended>>

\* the category's label does not occur: next category
ESkip ==
    /\ ePc = "loop"
    /\ eCat <= Len(SKILL_MAP)
    /\ ~Matches(SKILL_MAP[eCat].generic, eText)
    /\ eCat' = eCat + 1
    /\ UNCHANGED <<eText, expanded, selected, eAppended, ePc>>

\* one iteration of `for kw in selected`
EKeyword ==
    /\ ePc = "kw"
    /\ selected # <<>>
    /\ expanded' = KeywordStep(expanded, Head(selected))
    /\ eAppended' = IF expanded' # expanded
                    THEN Append(eAppended, <<eCat, Head(selected)>>)
                    ELSE eAppended
    /\ selected' = Tail(selected)
    /\ IF Tail(selected) = <<>>
       THEN ePc' = "loop" /\ eCat' = eCat + 1
       ELSE ePc' = "kw" /\ eCat' = eCat
    /\ UNCHANGED eText

\* `return expanded`
EReturn ==
    /\ ePc = "loop"
    /\ eCat > Len(SKILL_MAP)
    /\ ePc' = "returned"
    /\ UNCHANGED <<eText, expanded, eCat, selected, eAppended>>

NextExpand ==
    /\ \/ ESample
       \/ ESkip
       \/ EKeyword
       \/ EReturn
    /\ UNCHANGED <<reqVars, xVars>>

SpecExpand == InitExpand /\ [][NextExpand]_vars

-----------------------------------------------------------------------------
(* Properties of extract_text_from_pdf (SpecExtract) *)

RECURSIVE JoinWith(_, _)
\* sep.join(parts)
JoinWith(sep, parts) ==
    IF parts = <<>> THEN ""
    ELSE IF Len(parts) = 1 THEN parts[1]
    ELSE parts[1] \o sep \o JoinWith(sep, Tail(parts))

\* the texts of the pages that have text, in document order
TextsOf(pages) ==
    LET kept == SelectSeq(pages, LAMBDA p : p.some /\ Len(p.str) > 0)
    IN [i \in 1..Len(kept) |-> kept[i].str]

HasNonWhitespace(s) == \E i \in 1..Len(s) : SubSeq(s, i, i) \notin Whitespace

XDone == xPc \in {"returned", "empty", "proceed"}

XSpecified ==
    /\ xResult # ""
    /\ xResult = Strip(JoinWith("\n", TextsOf(xDoc.pages)))
    /\ xPc # "empty"

\* C10 as stated: a PDF with at least one page whose extracted text is
\* non-empty gives a non-empty result, equal to the trimmed newline-join of
\* the texts of its text pages, and is never an empty-content failure.
C10_AnyNonEmptyPage ==
    (XDone /\ \E i \in DOMAIN xDoc.pages : xDoc.pages[i].some /\ xDoc.pages[i].str # "")
        => XSpecified

\* C10 amended: a PDF with at least one page whose extracted text has a
\* non-whitespace character gives a non-empty result, equal to the trimmed
\* newline-join of the texts of its text pages, and is never an
\* empty-content failure.
C10_NonWhitespacePage ==
    (XDone /\ \E i \in DOMAIN xDoc.pages :
                 xDoc.pages[i].some /\ HasNonWhitespace(xDoc.pages[i].str))
        => XSpecified

\* a PDF with two text pages around a page without text went through
C10_Witness ==
    /\ xPc = "proceed"
    /\ Len(xDoc.pages) = 3
    /\ HasNonWhitespace(xDoc.pages[1].str)
    /\ ~xDoc.pages[2].some
    /\ HasNonWhitespace(xDoc.pages[3].str)

-----------------------------------------------------------------------------
(* Properties of expand_keywords (SpecExpand) *)

RECURSIVE Fragments(_)
\* " | <keyword>" for each recorded append, in order
Fragments(apps) ==
    IF apps = <<>> THEN ""
    ELSE " | " \o Head(apps)[2] \o Fragments(Tail(apps))

AppendsOf(c) == SelectSeq(eAppended, LAMBDA a : a[1] = c)

KeywordSet(c) == {SKILL_MAP[c].keywords[i] : i \in DOMAIN SKILL_MAP[c].keywords}

\* the label occurs in the text, compared case-insensitively at each position
OccursIgnoringCase(label, text) ==
    \E i \in 1..(Len(text) - Len(label) + 1) :
        \A j \in 1..Len(label) :
            LowerChar(SubSeq(text, i + j - 1, i + j - 1)) = LowerChar(SubSeq(label, j, j))

\* C6: in the returned text every appended keyword occurs at most once as a
\* substring.
C6_AppendedKeywordOccursOnce ==
    ePc = "returned" =>
        \A i \in DOMAIN eAppended : Occurrences(eAppended[i][2], expanded) <= 1

\* C7: at every step the output is the input followed by " | <keyword>"
\* fragments, each keyword from the taxonomy, at most 2 per category.
C7_InputPrefixThenFragments ==
    ePc # "idle" =>
        /\ expanded = eText \o Fragments(eAppended)
        /\ \A i \in DOMAIN eAppended :
              /\ eAppended[i][1] \in DOMAIN SKILL_MAP
              /\ eAppended[i][2] \in KeywordSet(eAppended[i][1])
        /\ \A c \in DOMAIN SKILL_MAP : Len(AppendsOf(c)) <= 2

\* two categories have each appended keywords
C7_Witness ==
    /\ ePc = "returned"
    /\ Len(AppendsOf(5)) = 2
    /\ Len(AppendsOf(7)) = 2

ExactlyTheSampleAppended(c) ==
    /\ Len(AppendsOf(c)) = Min(2, Len(SKILL_MAP[c].keywords))
    /\ \A i, j \in DOMAIN AppendsOf(c) : i # j => AppendsOf(c)[i] # AppendsOf(c)[j]
    /\ \A i \in DOMAIN AppendsOf(c) : AppendsOf(c)[i][2] \in KeywordSet(c)

\* C8 as stated: a category whose label occurs in the input, none of whose
\* keywords occurs in the input, appends exactly min(2, n) distinct keywords.
C8_LabelAndNoKeywordInInput ==
    ePc = "returned" =>
        \A c \in DOMAIN SKILL_MAP :
            (/\ OccursIgnoringCase(SKILL_MAP[c].generic, eText)
             /\ \A kw \in KeywordSet(c) : ~Contains(kw, eText))
                => ExactlyTheSampleAppended(c)

\* the output as it stood when category c was reached
OutputBefore(c) == eText \o Fragments(SelectSeq(eAppended, LAMBDA a : a[1] < c))

\* C8 amended: a category whose label occurs in the input, none of whose
\* keywords occurs in the input or in the keywords appended for earlier
\* categories, appends exactly min(2, n) distinct keywords.
C8_LabelAndNoKeywordInOutputSoFar ==
    ePc = "returned" =>
        \A c \in DOMAIN SKILL_MAP :
            (/\ OccursIgnoringCase(SKILL_MAP[c].generic, eText)
             /\ \A kw \in KeywordSet(c) : ~Contains(kw, OutputBefore(c)))
                => ExactlyTheSampleAppended(c)

\* "Strong classroom management skills" came back with two keywords
C8_Witness ==
    /\ ePc = "returned"
    /\ eText = "Strong classroom management skills"
    /\ Len(eAppended) = 2
    /\ Len(AppendsOf(1)) = 2

\* C9: when no category label occurs in the input the result is the input,
\* and only categories whose label occurs in the input append anything.
C9_NoOpOnAbsence ==
    /\ (ePc = "returned"
        /\ \A c \in DOMAIN SKILL_MAP : ~OccursIgnoringCase(SKILL_MAP[c].generic, eText))
            => expanded = eText
    /\ \A i \in DOMAIN eAppended :
          OccursIgnoringCase(SKILL_MAP[eAppended[i][1]].generic, eText)

\* a text without any label came back
C9_Witness ==
    /\ ePc = "returned"
    /\ eText = "Math teacher"
    /\ expanded = "Math teacher"

-----------------------------------------------------------------------------
(* /tailor: tailor_resume, run by concurrent requests *)

NumRequests == 2

Requests == 1..NumRequests

\* filename.rsplit('.', 1)[1]
Extension(filename) == SubSeq(filename, LastIndex(".", filename) + 1, Len(filename))

\* allowed_file(filename)
allowed_file(filename) ==
    Contains(".", filename) /\ Lower(Extension(filename)) \in ALLOWED_EXTENSIONS

RECURSIVE ReplaceChar(_, _, _)
ReplaceChar(s, from, to) ==
    IF s = "" THEN ""
    ELSE (IF SubSeq(s, 1, 1) = from THEN to ELSE SubSeq(s, 1, 1))
            \o ReplaceChar(SubSeq(s, 2, Len(s)), from, to)

\* werkzeug's secure_filename on the names used here: runs of whitespace
\* become "_" (the names have no path separators and no other unsafe
\* characters)
secure_filename(filename) == ReplaceChar(filename, " ", "_")

\* os.path.join(folder, filename)
PathJoin(dir, filename) == dir \o "/" \o filename

Filenames == {"", "cv.pdf", "my cv.PDF", "notes.txt"}

JobDescriptions == {" \n", "Grade 5 teacher"}

\* the content of the uploaded file
Uploads ==
    {Unparsable,
     Pdf(<<NoneText, Text(" ")>>),
     Pdf(<<Text("social-emotional learning: SEL, growth mindset, mindfulness, trauma-informed practices")>>)}

\* request.files / request.form of one POST /tailor
Posts ==
    {[has_file |-> FALSE, filename |-> "", job_description |-> j] : j \in JobDescriptions}
    \cup [has_file : {TRUE}, filename : Filenames, job_description : JobDescriptions]

NoPost == [has_file |-> FALSE, filename |-> "", job_description |-> ""]

\* what the rewrite service call can end with: a text, or a raised error
ServiceErrors == {"Incorrect API key provided"}

ServiceOutcomes ==
    {[ok |-> TRUE, text |-> "  Tailored resume\n"]}
    \cup {[ok |-> FALSE, text |-> e] : e \in ServiceErrors}

NoOutcome == [ok |-> FALSE, text |-> ""]

NoFile == [exists |-> FALSE, owner |-> 0, doc |-> Unparsable]

Paths == {PathJoin(UPLOAD_FOLDER, secure_filename(f)) : f \in Filenames}

NoResponse == [kind |-> "none", status |-> 0, error |-> "",
               original_resume |-> "", tailored_resume |-> ""]

\* jsonify({"error": msg}), status
ErrorResponse(status, msg) ==
    [kind |-> "json", status |-> status, error |-> msg,
     original_resume |-> "", tailored_resume |-> ""]

\* an exception nothing catches: Flask answers 500 without the JSON body
Unhandled(exc) ==
    [kind |-> "unhandled", status |-> 500, error |-> exc,
     original_resume |-> "", tailored_resume |-> ""]

\* jsonify({"original_resume": ..., "tailored_resume": ...})
OkResponse(text, out) ==
    [kind |-> "json", status |-> 200, error |-> "",
     original_resume |-> SubSeq(text, 1, Min(1000, Len(text))) \o "...",
     tailored_resume |-> out]

ValidateNoJobDescriptionCheck(post) ==
    IF ~post.has_file THEN "No resume file uploaded"
    ELSE IF post.filename = "" THEN "No file selected"
    ELSE IF ~(post.filename # "" /\ allowed_file(post.filename))
         THEN "Invalid file type. Only PDF allowed."
    ELSE ""

\* the checks of tailor_resume before anything is saved: the error message
\* of the first check that fails, "" when all pass
Validate(post) ==
    IF ~post.has_file THEN "No resume file uploaded"
    ELSE IF post.filename = "" THEN "No file selected"
    ELSE IF Strip(post.job_description) = "" THEN "Job description is required"
    ELSE IF ~(post.filename # "" /\ allowed_file(post.filename))
         THEN "Invalid file type. Only PDF allowed."
    ELSE ""

NoCalls == [save |-> 0, extract |-> 0, expand |-> 0, generate |-> 0, remove |-> 0]

NoTouch == [read |-> 0, removed |-> 0, overwrote |-> 0]

Init ==
    /\ pc = [r \in Requests |-> "start"]
    /\ req = [r \in Requests |-> NoPost]
    /\ filepath = [r \in Requests |-> ""]
    /\ resume_text = [r \in Requests |-> ""]
    /\ tailored = [r \in Requests |-> NoOutcome]
    /\ response = [r \in Requests |-> NoResponse]
    /\ folder = [p \in Paths |-> NoFile]
    /\ calls = [r \in Requests |-> NoCalls]
    /\ touched = [r \in Requests |-> NoTouch]
    /\ IdleX /\ IdleE

\* a POST arrives and is validated
Receive(r) ==
    /\ pc[r] = "start"
    /\ \E post \in Posts :
          /\ req' = [req EXCEPT ![r] = post]
          /\ IF Validate(post) # ""
             THEN /\ response' = [response EXCEPT ![r] = ErrorResponse(400, Validate(post))]
                  /\ pc' = [pc EXCEPT ![r] = "done"]
             ELSE /\ pc' = [pc EXCEPT ![r] = "save"]
                  /\ UNCHANGED response
    /\ UNCHANGED <<filepath, resume_text, tailored, folder, calls, touched>>

\* filename, filepath, file.save(filepath): the upload's content, read from
\* the client here, lands in the folder
Save(r) ==
    /\ pc[r] = "save"
    /\ \E doc \in Uploads :
        LET path == PathJoin(UPLOAD_FOLDER, secure_filename(req[r].filename))
            old == folder[path]
        IN /\ filepath' = [filepath EXCEPT ![r] = path]
           /\ folder' = [folder EXCEPT ![path] =
                             [exists |-> TRUE, owner |-> r, doc |-> doc]]
           /\ touched' = [touched EXCEPT ![r].overwrote =
                             IF old.exists /\ old.owner # r /\ pc[old.owner] # "done"
                             THEN old.owner ELSE 0]
    /\ calls' = [calls EXCEPT ![r].save = @ + 1]
    /\ pc' = [pc EXCEPT ![r] = "extract"]
    /\ UNCHANGED <<req, resume_text, tailored, response>>

\* extract_text_from_pdf(filepath) raises: the file is gone or is no PDF;
\* nothing in tailor_resume catches it
ExtractRaises(r) ==
    /\ pc[r] = "extract"
    /\ LET f == folder[filepath[r]]
       IN /\ ~f.exists \/ ~f.doc.parsable
          /\ response' = [response EXCEPT ![r] =
                            Unhandled(IF f.exists THEN "PDFSyntaxError" ELSE "FileNotFoundError")]
    /\ calls' = [calls EXCEPT ![r].extract = @ + 1]
    /\ pc' = [pc EXCEPT ![r] = "done"]
    /\ UNCHANGED <<req, filepath, resume_text, tailored, folder, touched>>

\* extract_text_from_pdf(filepath) returns text that is empty after strip()
ExtractEmpty(r) ==
    /\ pc[r] = "extract"
    /\ LET f == folder[filepath[r]]
       IN /\ f.exists /\ f.doc.parsable
          /\ IsEmptyContent(ExtractText(f.doc.pages))
          /\ resume_text' = [resume_text EXCEPT ![r] = ExtractText(f.doc.pages)]
          /\ touched' = [touched EXCEPT ![r].read = f.owner]
    /\ calls' = [calls EXCEPT ![r].extract = @ + 1]
    /\ pc' = [pc EXCEPT ![r] = "remove_empty"]
    /\ UNCHANGED <<req, filepath, tailored, response, folder>>

\* extract_text_from_pdf(filepath) returns text, expand_keywords rewrites it
ExtractAndExpand(r) ==
    /\ pc[r] = "extract"
    /\ LET f == folder[filepath[r]]
       IN /\ f.exists /\ f.doc.parsable
          /\ ~IsEmptyContent(ExtractText(f.doc.pages))
          /\ \E e \in ExpandKeywords(ExtractText(f.doc.pages)) :
                resume_text' = [resume_text EXCEPT ![r] = e]
          /\ touched' = [touched EXCEPT ![r].read = f.owner]
    /\ calls' = [calls EXCEPT ![r].extract = @ + 1, ![r].expand = @ + 1]
    /\ pc' = [pc EXCEPT ![r] = "generate"]
    /\ UNCHANGED <<req, filepath, tailored, response, folder>>

\* os.remove(filepath) and the return after it: with the file there it is
\* deleted and `resp` returned; without it os.remove raises
RemoveThen(r, resp) ==
    /\ LET f == folder[filepath[r]]
       IN IF f.exists
          THEN /\ folder' = [folder EXCEPT ![filepath[r]] = NoFile]
               /\ touched' = [touched EXCEPT ![r].removed = f.owner]
               /\ response' = [response EXCEPT ![r] = resp]
          ELSE /\ response' = [response EXCEPT ![r] = Unhandled("FileNotFoundError")]
               /\ UNCHANGED <<folder, touched>>
    /\ calls' = [calls EXCEPT ![r].remove = @ + 1]
    /\ pc' = [pc EXCEPT ![r] = "done"]
    /\ UNCHANGED <<req, filepath, resume_text, tailored>>

\* the empty-text branch
RemoveEmpty(r) ==
    /\ pc[r] = "remove_empty"
    /\ RemoveThen(r, ErrorResponse(400, "Could not extract text from PDF"))

\* generate_tailored_resume(resume_text, job_desc) inside try/except
Generate(r) ==
    /\ pc[r] = "generate"
    /\ \E out \in ServiceOutcomes :
          /\ tailored' = [tailored EXCEPT ![r] =
                            IF out.ok THEN [ok |-> TRUE, text |-> Strip(out.text)] ELSE out]
          /\ pc' = [pc EXCEPT ![r] = IF out.ok THEN "remove_ok" ELSE "remove_err"]
    /\ calls' = [calls EXCEPT ![r].generate = @ + 1]
    /\ UNCHANGED <<req, filepath, resume_text, response, folder, touched>>

\* the except branch
RemoveErr(r) ==
    /\ pc[r] = "remove_err"
    /\ RemoveThen(r, ErrorResponse(500, "OpenAI error: " \o tailored[r].text))

\* the success path
RemoveOk(r) ==
    /\ pc[r] = "remove_ok"
    /\ RemoveThen(r, OkResponse(resume_text[r], tailored[r].text))

Next ==
    /\ \E r \in Requests :
          \/ Receive(r)
          \/ Save(r)
          \/ ExtractRaises(r)
          \/ ExtractEmpty(r)
          \/ ExtractAndExpand(r)
          \/ RemoveEmpty(r)
          \/ Generate(r)
          \/ RemoveErr(r)
          \/ RemoveOk(r)
    /\ UNCHANGED <<xVars, eVars>>

Spec == Init /\ [][Next]_vars

-----------------------------------------------------------------------------
(* Properties of /tailor (Spec) *)

Saved(r) == calls[r].save > 0

OwnFilePresent(r) ==
    /\ Saved(r)
    /\ folder[filepath[r]].exists
    /\ folder[filepath[r]].owner = r

\* C1: no request that saved its upload terminates with that file still in
\* the upload folder.
C1_NoTempFileLeft ==
    \A r \in Requests : (pc[r] = "done" /\ Saved(r)) => ~OwnFilePresent(r)

\* C2: a request reads and removes only the file it saved itself, and never
\* overwrites the file of a request still running.
C2_NoSharedTempFile ==
    \A r \in Requests :
        /\ touched[r].read \in {0, r}
        /\ touched[r].removed \in {0, r}
        /\ touched[r].overwrote = 0

\* the post fails validation: no file part, empty filename, job description
\* empty after trimming, or an extension that is not pdf
LastDot(name) ==
    IF \E i \in 1..Len(name) : SubSeq(name, i, i) = "."
    THEN CHOOSE i \in 1..Len(name) :
            /\ SubSeq(name, i, i) = "."
            /\ \A j \in 1..Len(name) : SubSeq(name, j, j) = "." => j <= i
    ELSE 0

HasPdfExtension(name) ==
    /\ LastDot(name) > 0
    /\ SubSeq(name, LastDot(name) + 1, Len(name)) \in {"pdf", "Pdf", "pDf", "pdF", "PDf", "PdF", "pDF", "PDF"}

InvalidPost(post) ==
    \/ ~post.has_file
    \/ post.filename = ""
    \/ ~HasNonWhitespace(post.job_description)
    \/ ~HasPdfExtension(post.filename)

\* C3: a request that fails input validation is answered with an error and
\* nothing is processed: no file saved, no helper invoked.
C3_InvalidInputRejectedUnprocessed ==
    \A r \in Requests :
        (pc[r] # "start" /\ InvalidPost(req[r])) =>
            /\ pc[r] = "done"
            /\ response[r].kind = "json"
            /\ response[r].status = 400
            /\ response[r].error # ""
            /\ calls[r] = NoCalls
            /\ \A p \in Paths : ~(folder[p].exists /\ folder[p].owner = r)

\* one request was rejected for its blank job description and another for
\* its file type
C3_Witness ==
    \E r1, r2 \in Requests :
        /\ pc[r1] = "done"
        /\ req[r1].has_file /\ req[r1].filename = "cv.pdf"
        /\ req[r1].job_description = " \n"
        /\ pc[r2] = "done"
        /\ req[r2].has_file /\ req[r2].filename = "notes.txt"
        /\ req[r2].job_description = "Grade 5 teacher"

\* the extractor returned the empty string to request r
ExtractedEmpty(r) == touched[r].read # 0 /\ resume_text[r] = ""

\* C4: a request whose extraction returned the empty string ends with the
\* 400 empty-content error, and expand_keywords and the rewrite service are
\* never invoked for it.
C4_EmptyContentReported ==
    \A r \in Requests :
        ExtractedEmpty(r) =>
            /\ calls[r].expand = 0
            /\ calls[r].generate = 0
            /\ pc[r] = "done" =>
                  /\ response[r].kind = "json"
                  /\ response[r].status = 400
                  /\ response[r].error = "Could not extract text from PDF"

\* C5: a request whose rewrite call raised ends with a 500 error response
\* containing the error's text, its temp file removed, the service invoked
\* exactly once.
C5_RewriteErrorReported ==
    \A r \in Requests :
        (pc[r] = "done" /\ calls[r].generate > 0 /\ ~tailored[r].ok) =>
            /\ response[r].kind = "json"
            /\ response[r].status = 500
            /\ Contains(tailored[r].text, response[r].error)
            /\ ~OwnFilePresent(r)
            /\ calls[r].generate = 1

====
